---- MODULE Spec2Model ----
(***************************************************************************)
(* A model of svg2pdf.js (src/svg2pdf.js): the transform mini-language     *)
(* parser (parseTransform) and the scene traverser (renderNode and the     *)
(* functions it dispatches to), with the scoped definition registry.       *)
(***************************************************************************)
EXTENDS Integers, Sequences, FiniteSets, TLC

VARIABLES
  \* parseTransform run on its own: the string given, the string left, the
  \* accumulated matrix, the statement reached
  ptInput, ptStr, ptM, ptPc,
  \* the traversal: where svgElementToPdf stands, the call stack of renderNode,
  \* the defs objects and SvgPrefix objects on the heap, the calls made on the
  \* backend, and the number of nodes of the document not yet read
  status, stack, heapDefs, heapPrefix, ops, budget,
  \* history: the last getFromDefs call, the nodes met as direct children of a
  \* defs element, the use elements met, the nodes renderNode has returned from
  lastLookup, decls, uses, finished,
  \* one of the other functions run on its own: its argument, its local
  \* variables and result, the statement reached
  fnArg, fnRes, fnPc

ptVars == <<ptInput, ptStr, ptM, ptPc>>

trVars == <<status, stack, heapDefs, heapPrefix, ops, budget, lastLookup, decls, uses, finished>>

fnVars == <<fnArg, fnRes, fnPc>>

vars == <<ptInput, ptStr, ptM, ptPc,
          status, stack, heapDefs, heapPrefix, ops, budget, lastLookup, decls, uses, finished,
          fnArg, fnRes, fnPc>>

(***************************************************************************)
(* Bounds of the model.                                                    *)
(***************************************************************************)
\* longest transform string, counted in items (function calls, blanks, words)
MaxLen == 3

\* most nodes a document has below its root element
MaxNodes == 4

(***************************************************************************)
(* Small helpers on sequences.                                             *)
(***************************************************************************)
RECURSIVE SeqsUpTo(_, _)
SeqsUpTo(S, n) ==
  IF n = 0 THEN {<<>>}
  ELSE LET shorter == SeqsUpTo(S, n - 1)
       IN  shorter \cup {Append(s, x) : s \in {t \in shorter : Len(t) = n - 1}, x \in S}

RemoveRange(s, i, j) ==
  [k \in 1..(Len(s) - (j - i + 1)) |-> IF k < i THEN s[k] ELSE s[k + (j - i + 1)]]

(***************************************************************************)
(* Affine matrices of the backend: <<a, b, c, d, e, f>>, applied to a row  *)
(* vector.  matrixMult(m1, m2) applies m1 first, then m2.                  *)
(***************************************************************************)
Matrix(a, b, c, d, e, f) == <<a, b, c, d, e, f>>

unitMatrix == Matrix(1, 0, 0, 1, 0, 0)

matrixMult(m1, m2) ==
  Matrix(m1[1] * m2[1] + m1[2] * m2[3],
         m1[1] * m2[2] + m1[2] * m2[4],
         m1[3] * m2[1] + m1[4] * m2[3],
         m1[3] * m2[2] + m1[4] * m2[4],
         m1[5] * m2[1] + m1[6] * m2[3] + m2[5],
         m1[5] * m2[2] + m1[6] * m2[4] + m2[6])

\* vec' = vec * matrix
multVecMatrix(vec, matrix) ==
  <<matrix[1] * vec[1] + matrix[3] * vec[2] + matrix[5],
    matrix[2] * vec[1] + matrix[4] * vec[2] + matrix[6]>>

\* Math.cos / Math.sin / Math.tan on the angles the model feeds them:
\* whole multiples of 90 degrees, and 0 radians for tan.
Cos(deg) == CASE deg % 360 = 0 -> 1 [] deg % 360 = 90 -> 0
              [] deg % 360 = 180 -> -1 [] deg % 360 = 270 -> 0

Sin(deg) == CASE deg % 360 = 0 -> 0 [] deg % 360 = 90 -> 1
              [] deg % 360 = 180 -> 0 [] deg % 360 = 270 -> -1

Tan(rad) == CASE rad = 0 -> 0

(***************************************************************************)
(* Transform strings.  A string is a sequence of items: a function call    *)
(* name(args), a blank, or a word that is no transform function.  Its text *)
(* is the sequence of lexemes of its items.                                *)
(***************************************************************************)
Call(fn, args) == [k |-> "call", fn |-> fn, args |-> args]
Blank == [k |-> "ws", fn |-> "", args |-> <<>>]
Word == [k |-> "junk", fn |-> "", args |-> <<>>]

Lex(t, v) == [t |-> t, v |-> v]

RECURSIVE ArgLexemes(_)
ArgLexemes(args) ==
  IF Len(args) = 0 THEN <<>>
  ELSE IF Len(args) = 1 THEN <<Lex("num", args[1])>>
  ELSE <<Lex("num", args[1]), Lex("comma", 0)>> \o ArgLexemes(Tail(args))

ItemLexemes(it) ==
  CASE it.k = "call" -> <<Lex("open", 0)>> \o ArgLexemes(it.args) \o <<Lex("close", 0)>>
    [] it.k = "ws" -> <<Lex("ws", 0)>>
    [] it.k = "junk" -> <<Lex("junk", 0)>>

RECURSIVE Lexemes(_)
Lexemes(str) ==
  IF Len(str) = 0 THEN <<>> ELSE ItemLexemes(Head(str)) \o Lexemes(Tail(str))

\* JavaScript numbers: a number, NaN, Infinity or -Infinity
Num(n) == [nan |-> FALSE, inf |-> 0, v |-> n]
NaN == [nan |-> TRUE, inf |-> 0, v |-> 0]
Infinity == [nan |-> FALSE, inf |-> 1, v |-> 0]
NegInfinity == [nan |-> FALSE, inf |-> -1, v |-> 0]
Truthy(x) == ~x.nan /\ (x.inf # 0 \/ x.v # 0)

\* parseFloat of a piece of text: its leading number, NaN without one
ParseFloat(piece) ==
  IF Len(piece) > 0 /\ piece[1].t = "num" THEN Num(piece[1].v) ELSE NaN

\* str.split(/\s*\s|,\s*/): the pieces between commas and runs of blanks
RECURSIVE SplitPieces(_, _, _)
SplitPieces(lx, cur, prevWs) ==
  IF Len(lx) = 0 THEN <<cur>>
  ELSE LET h == Head(lx) IN
       IF h.t = "comma" THEN <<cur>> \o SplitPieces(Tail(lx), <<>>, FALSE)
       ELSE IF h.t = "ws" THEN
              IF prevWs THEN SplitPieces(Tail(lx), cur, TRUE)
              ELSE <<cur>> \o SplitPieces(Tail(lx), <<>>, TRUE)
       ELSE SplitPieces(Tail(lx), Append(cur, h), FALSE)

\* parseFloats on the text between a call's "(" and the matched ")"
ParseFloats(lx) ==
  LET pieces == SplitPieces(lx, <<>>, FALSE)
  IN  [i \in 1..Len(pieces) |-> ParseFloat(pieces[i])]

\* m[i] of a JavaScript array: undefined beyond its end behaves as NaN here
At(m, i) == IF i <= Len(m) THEN m[i] ELSE NaN

(***************************************************************************)
(* One regular expression of parseTransform, /name\((.+)\)/, on a string:  *)
(* the match starts at the first call of that name and, .+ being greedy,   *)
(* ends at the last ")" of the whole string.                               *)
(***************************************************************************)
CallIdx(str, fn) == {i \in 1..Len(str) : str[i].k = "call" /\ str[i].fn = fn}
AnyCallIdx(str) == {i \in 1..Len(str) : str[i].k = "call"}

Min(S) == CHOOSE x \in S : \A y \in S : x <= y
Max(S) == CHOOSE x \in S : \A y \in S : x >= y

RegexMatches(str, fn) == CallIdx(str, fn) # {}
MatchFrom(str, fn) == Min(CallIdx(str, fn))
MatchTo(str) == Max(AnyCallIdx(str))

\* match[1]: the text after "name(" up to the last ")"
MatchGroup(str, fn) ==
  LET lx == Lexemes(SubSeq(str, MatchFrom(str, fn), MatchTo(str)))
  IN  SubSeq(lx, 2, Len(lx) - 1)

\* transformString.replace(match[0], "")
ReplaceMatch(str, fn) == RemoveRange(str, MatchFrom(str, fn), MatchTo(str))

\* the matrix each branch of parseTransform's loop builds from the parsed numbers
MatrixOfMatrix(m) ==
  Matrix(At(m, 1).v, At(m, 2).v, At(m, 3).v, At(m, 4).v, At(m, 5).v, At(m, 6).v)

MatrixOfRotate(m) ==
  Matrix(Cos(At(m, 1).v), Sin(At(m, 1).v), -Sin(At(m, 1).v), Cos(At(m, 1).v), 0, 0)

MatrixOfTranslate(m) ==
  Matrix(1, 0, 0, 1, At(m, 1).v, IF Truthy(At(m, 2)) THEN At(m, 2).v ELSE 0)

MatrixOfScale(m) ==
  Matrix(At(m, 1).v, 0, 0, IF Truthy(At(m, 2)) THEN At(m, 2).v ELSE At(m, 1).v, 0, 0)

MatrixOfSkewX(x) == Matrix(1, 0, Tan(x.v), 1, 0, 0)

MatrixOfSkewY(x) == Matrix(1, Tan(x.v), 0, 1, 0, 0)

\* the rotate branch: the rotation is pre-multiplied, then the pivot wraps
\* the whole accumulated matrix
RotateOnto(m, acc) ==
  LET r == matrixMult(MatrixOfRotate(m), acc)
  IN  IF Truthy(At(m, 2)) /\ Truthy(At(m, 3))
      THEN matrixMult(Matrix(1, 0, 0, 1, -At(m, 2).v, -At(m, 3).v),
                      matrixMult(r, Matrix(1, 0, 0, 1, At(m, 2).v, At(m, 3).v)))
      ELSE r

\* regex.exec on the string, the numbers parsed from its group, and the
\* string with the match replaced by ""
RegexExec(str, fn) ==
  IF ~RegexMatches(str, fn)
  THEN [hit |-> FALSE, m |-> <<>>, f |-> NaN, rest |-> str]
  ELSE [hit |-> TRUE,
        m |-> ParseFloats(MatchGroup(str, fn)),
        f |-> ParseFloat(MatchGroup(str, fn)),
        rest |-> ReplaceMatch(str, fn)]

\* the accumulated matrix after one branch of the loop body
BranchResult(fn, ex, acc) ==
  IF ~ex.hit THEN acc
  ELSE CASE fn = "matrix" -> matrixMult(MatrixOfMatrix(ex.m), acc)
         [] fn = "rotate" -> RotateOnto(ex.m, acc)
         [] fn = "translate" -> matrixMult(MatrixOfTranslate(ex.m), acc)
         [] fn = "scale" -> matrixMult(MatrixOfScale(ex.m), acc)
         [] fn = "skewX" -> matrixMult(MatrixOfSkewX(ex.f), acc)
         [] fn = "skewY" -> matrixMult(MatrixOfSkewY(ex.f), acc)

\* one branch of the loop body applied to [str, m]
BranchOrder == <<"matrix", "rotate", "translate", "scale", "skewX", "skewY">>

ApplyBranch(fn, st) ==
  LET ex == RegexExec(st.str, fn)
  IN  [str |-> ex.rest, m |-> BranchResult(fn, ex, st.m)]

RECURSIVE ApplyBranches(_, _)
ApplyBranches(i, st) ==
  IF i > Len(BranchOrder) THEN st
  ELSE ApplyBranches(i + 1, ApplyBranch(BranchOrder[i], st))

\* parseTransform as a function, for the strings on which its loop ends
RECURSIVE ParseLoop(_)
ParseLoop(st) ==
  IF Len(st.str) = 0 THEN st.m ELSE ParseLoop(ApplyBranches(1, st))

parseTransform(str) ==
  IF Len(str) = 0 THEN unitMatrix ELSE ParseLoop([str |-> str, m |-> unitMatrix])

(***************************************************************************)
(* Text.  Tag names are sequences of characters, so that indexOf on them   *)
(* is computed.  An id, an SvgPrefix and a key of the defs object are      *)
(* sequences of tokens: Seg(k) is the text "_k_", Chr(c) any other text.   *)
(***************************************************************************)
TagChars(tag) ==
  CASE tag = "svg" -> <<"s", "v", "g">>
    [] tag = "g" -> <<"g">>
    [] tag = "defs" -> <<"d", "e", "f", "s">>
    [] tag = "use" -> <<"u", "s", "e">>
    [] tag = "rect" -> <<"r", "e", "c", "t">>
    [] tag = "line" -> <<"l", "i", "n", "e">>
    [] tag = "lineargradient" ->
         <<"l", "i", "n", "e", "a", "r", "g", "r", "a", "d", "i", "e", "n", "t">>

\* the literal "lineargradient,radialgradient"
GradientTags ==
  <<"l", "i", "n", "e", "a", "r", "g", "r", "a", "d", "i", "e", "n", "t", ",",
    "r", "a", "d", "i", "a", "l", "g", "r", "a", "d", "i", "e", "n", "t">>

\* hay.indexOf(needle) >= 0
IndexOfFound(hay, needle) ==
  \E i \in 1..(Len(hay) - Len(needle) + 1) : SubSeq(hay, i, i + Len(needle) - 1) = needle

Seg(k) == [seg |-> TRUE, n |-> k, c |-> ""]
Chr(c) == [seg |-> FALSE, n |-> 0, c |-> c]

IdA == <<Chr("a")>>
IdC == <<Chr("c")>>
\* the id "_7__0_a", which matches \w+ like any other
IdSegA == <<Seg(7), Seg(0), Chr("a")>>
NoAttr == <<>>

\* prefix + n.attr("id"): an absent attribute concatenates as "undefined"
AttrText(v) == IF v = NoAttr THEN <<Chr("undefined")>> ELSE v

(***************************************************************************)
(* The nodes of the documents: tag and attributes.                         *)
(***************************************************************************)
Node(tag, id, fill, href, tf, w, h) ==
  [tag |-> tag, id |-> id, fill |-> fill, href |-> href, tf |-> tf, w |-> w, h |-> h]

Container(tag, id) == Node(tag, id, NoAttr, NoAttr, <<>>, 0, 0)

\* children a document gives to svg and g elements
ContentKinds ==
  { Node("rect", NoAttr, IdA, NoAttr, <<>>, 10, 20),
    Node("rect", NoAttr, IdSegA, NoAttr, <<>>, 10, 20),
    Node("use", NoAttr, NoAttr, IdA, <<Call("translate", <<10, 0>>)>>, 0, 0),
    Container("svg", NoAttr), Container("g", NoAttr), Container("defs", NoAttr) }

\* children a document gives to defs elements
DefsKinds ==
  { Node("rect", IdA, NoAttr, NoAttr, <<>>, 10, 20),
    Node("line", IdA, NoAttr, NoAttr, <<>>, 0, 0),
    Node("lineargradient", IdA, NoAttr, NoAttr, <<>>, 0, 0),
    Container("g", IdC), Container("defs", NoAttr) }

RootNode == Container("svg", NoAttr)

IsContainer(tag) == tag \in {"svg", "g", "defs"}

RECURSIVE SeqsOfLen(_, _)
SeqsOfLen(S, n) ==
  IF n = 0 THEN {<<>>}
  ELSE {Append(s, x) : s \in SeqsOfLen(S, n - 1), x \in S}

ContentLists == [n \in 0..MaxNodes |-> SeqsOfLen(ContentKinds, n)]
DefsLists == [n \in 0..MaxNodes |-> SeqsOfLen(DefsKinds, n)]

\* the child lists a node of this tag may have, n children long
ChildLists(tag, n) ==
  IF ~IsContainer(tag) THEN (IF n = 0 THEN {<<>>} ELSE {})
  ELSE IF tag = "defs" THEN DefsLists[n] ELSE ContentLists[n]

(***************************************************************************)
(* SvgPrefix objects and defs objects live on a heap and are passed by     *)
(* reference.                                                              *)
(***************************************************************************)
\* new SvgPrefix(prefix)
SvgPrefix(prefix) == [prefix |-> prefix, id |-> 0]

\* svgIdPrefix.nextChild(): "_" + this.id++ + "_" + this.get()
NextChild(heap, ref) ==
  [heap |-> Append([heap EXCEPT ![ref].id = @ + 1],
                   SvgPrefix(<<Seg(heap[ref].id)>> \o heap[ref].prefix)),
   ref |-> Len(heap) + 1]

\* a defs object is a set of entries [key, node]
HasKey(defs, key) == \E e \in defs : e.key = key
Entry(defs, key) == CHOOSE e \in defs : e.key = key
NotFound == [key |-> <<>>, node |-> [path |-> <<>>, scope |-> <<>>, tag |-> "undefined"]]

\* defs[id] = node
PutDef(defs, key, node) == {e \in defs : e.key # key} \cup {[key |-> key, node |-> node]}

\* the regular expression /_\d+_/ on a key
HasSeg(key) == \E i \in 1..Len(key) : key[i].seg
FirstSeg(key) == CHOOSE i \in 1..Len(key) : key[i].seg /\ \A j \in 1..(i - 1) : ~key[j].seg
RemoveAt(s, i) == [k \in 1..(Len(s) - 1) |-> IF k < i THEN s[k] ELSE s[k + 1]]

RECURSIVE getFromDefs(_, _)
getFromDefs(id, defs) ==
  IF ~HasKey(defs, id) /\ HasSeg(id)
  THEN getFromDefs(RemoveAt(id, FirstSeg(id)), defs)
  ELSE IF HasKey(defs, id) THEN Entry(defs, id) ELSE NotFound

\* what svg() would work on if it passed defs on instead of cloning it
cloneDefsAliased(heap, ref) == [heap |-> heap, ref |-> ref]

\* cloneDefs(defs): a new object with the same entries
cloneDefs(heap, ref) == [heap |-> Append(heap, heap[ref]), ref |-> Len(heap) + 1]

(***************************************************************************)
(* Geometry of a node, for the attributes the documents use.               *)
(***************************************************************************)
\* computeNodeTransform: no x, y, viewBox, refX or refY attribute is set
computeNodeTransform(n) ==
  IF n.tf = <<>> THEN unitMatrix ELSE matrixMult(unitMatrix, parseTransform(n.tf))

\* getUntransformedBBox: only rect carries size attributes (width, height)
getUntransformedBBox(n) ==
  IF n.tag = "rect" THEN <<0, 0, n.w, n.h>> ELSE <<0, 0, 0, 0>>

(***************************************************************************)
(* The calls made on the backend, in order.                                *)
(***************************************************************************)
Op(op, key, m, node, w, h) == [op |-> op, key |-> key, m |-> m, node |-> node, w |-> w, h |-> h]
PlainOp(op) == Op(op, NoAttr, unitMatrix, <<>>, 0, 0)

OpIdx(log, op) == {k \in 1..Len(log) : log[k].op = op}
CountOps(log, op) == Cardinality(OpIdx(log, op))

\* _pdf.getFormObject(key), for a key endFormObject has registered
Registered(log, key) == \E k \in OpIdx(log, "endFormObject") : log[k].key = key
FormObject(log, key) == log[Max({k \in OpIdx(log, "endFormObject") : log[k].key = key})]

(***************************************************************************)
(* The call stack: one frame per renderNode call.                          *)
(***************************************************************************)
Frame(path, ptag, node, ctx, defs, prefix, withinDefs, scope) ==
  [ path |-> path, ptag |-> ptag, node |-> node, scope |-> scope,
    \* the parameters contextTransform, defs, svgIdPrefix, withinDefs
    ctx |-> ctx, defs |-> defs, prefix |-> prefix, withinDefs |-> withinDefs,
    \* the locals
    pc |-> "enter", isFO |-> FALSE, tfMatrix |-> unitMatrix, wd |-> withinDefs,
    gradient |-> NoAttr, gradientMatrix |-> unitMatrix, colorMode |-> "null",
    \* n.children() when the node was read, the children still in the tree,
    \* and the position of the running .each()
    snap |-> <<>>, live |-> <<>>, i |-> 1,
    \* what the children are called with
    cdefs |-> defs, cprefix |-> prefix, cwithin |-> withinDefs, cscope |-> scope,
    \* history: the defs object this svg element cloned, as it was then
    defsAtEntry |-> {} ]

Top == stack[Len(stack)]
SetTop(f) == [stack EXCEPT ![Len(stack)] = f]
Running == status = "running" /\ stack # <<>>
At0(pc) == Running /\ Top.pc = pc

FillTags == {"g", "path", "rect", "text", "ellipse", "line", "circle", "polygon"}
StrokeTags == {"g", "path", "rect", "ellipse", "line", "circle", "polygon"}

\* svgIdPrefix.get() + id
ScopedId(prefixRef, id) == heapPrefix[prefixRef].prefix \o id

\* withinDefs && "lineargradient,radialgradient".indexOf(tagName) < 0
targetIsFormObject(withinDefs, tag) ==
  withinDefs /\ ~IndexOfFound(GradientTags, TagChars(tag))

Init ==
  /\ status = "init"
  /\ stack = <<>>
  /\ heapDefs = <<>>
  /\ heapPrefix = <<>>
  /\ ops = <<>>
  /\ budget = MaxNodes
  /\ lastLookup = [node |-> <<>>, scope |-> <<>>, prefix |-> <<>>, id |-> <<>>,
                   defs |-> {}, found |-> FALSE, result |-> NotFound.node]
  /\ decls = {}
  /\ uses = {}
  /\ finished = {}
  /\ ptInput = <<>> /\ ptStr = <<>> /\ ptM = unitMatrix /\ ptPc = "idle"
  /\ fnArg = <<>> /\ fnRes = <<>> /\ fnPc = "idle"

\* svgElementToPdf(element, pdf, {}): save, set the page transform, render the
\* clone of the root element with an empty defs object and the prefix ""
Start ==
  /\ status = "init"
  /\ status' = "running"
  /\ ops' = <<PlainOp("saveGraphicsState"),
              Op("setCurrentTransformationMatrix", NoAttr, Matrix(1, 0, 0, 1, 0, 0), <<>>, 0, 0)>>
  /\ heapDefs' = <<{}>>
  /\ heapPrefix' = <<SvgPrefix(<<>>)>>
  /\ stack' = <<Frame(<<>>, "", RootNode, unitMatrix, 1, 1, FALSE, <<>>)>>
  /\ UNCHANGED <<budget, lastLookup, decls, uses, finished, ptVars, fnVars>>

\* renderNode, "decide about the render target": the node and its children
\* are read, and a form object is begun or the graphics state saved
Enter ==
  /\ At0("enter")
  /\ \E n \in 0..budget : \E ks \in ChildLists(Top.node.tag, n) :
       LET f == Top
           fo == targetIsFormObject(f.withinDefs, f.node.tag)
           nt == computeNodeTransform(f.node)
           bb == getUntransformedBBox(f.node)
       IN  /\ stack' = SetTop([f EXCEPT !.snap = ks,
                                        !.live = [j \in 1..Len(ks) |-> j],
                                        !.isFO = fo,
                                        !.tfMatrix = IF fo THEN unitMatrix
                                                     ELSE matrixMult(nt, f.ctx),
                                        !.wd = IF fo THEN FALSE ELSE f.withinDefs,
                                        !.cwithin = IF fo THEN FALSE ELSE f.withinDefs,
                                        !.pc = "paint"])
           /\ ops' = Append(ops, IF fo THEN Op("beginFormObject", NoAttr, nt, f.path, bb[3], bb[4])
                                 ELSE PlainOp("saveGraphicsState"))
           /\ budget' = budget - n
           /\ decls' = IF f.ptag = "defs"
                       THEN decls \cup {[path |-> f.path, node |-> f.node, scope |-> f.scope,
                                         key |-> ScopedId(f.prefix, AttrText(f.node.id))]}
                       ELSE decls
  /\ UNCHANGED <<status, heapDefs, heapPrefix, lastLookup, uses, finished, ptVars, fnVars>>

\* "extract fill and stroke mode" for a node without a url(#id) fill: the
\* default fill is black; no document sets a stroke
PaintPlain ==
  /\ At0("paint")
  /\ ~(Top.node.tag \in FillTags /\ Top.node.fill # NoAttr)
  /\ LET f == Top
         filled == f.node.tag \in FillTags
     IN  /\ stack' = SetTop([f EXCEPT !.colorMode = IF filled THEN "F" ELSE "null",
                                      !.pc = "draw"])
         /\ ops' = ops \o (IF filled THEN <<PlainOp("setGState")>> ELSE <<>>)
                       \o (IF f.node.tag \in StrokeTags THEN <<PlainOp("setFillColor")>> ELSE <<>>)
  /\ UNCHANGED <<status, heapDefs, heapPrefix, budget, lastLookup, decls, uses, finished, ptVars, fnVars>>

\* the lookup a url(#id) fill makes
FillLookup(f) == getFromDefs(ScopedId(f.prefix, f.node.fill), heapDefs[f.defs])

LookupRecord(f, r) ==
  [node |-> f.path, scope |-> f.scope, prefix |-> heapPrefix[f.prefix].prefix,
   id |-> f.node.fill, defs |-> heapDefs[f.defs], found |-> r # NotFound, result |-> r.node]

\* a fill of url(#id) that getFromDefs resolves: the gradient matrix maps the
\* gradient onto the bounding box, gradientUnits and gradientTransform unset
PaintGradient ==
  /\ At0("paint")
  /\ Top.node.tag \in FillTags /\ Top.node.fill # NoAttr
  /\ FillLookup(Top) # NotFound
  /\ LET f == Top
         fill == FillLookup(f)
         bb == getUntransformedBBox(f.node)
         gm == IF IndexOfFound(GradientTags, TagChars(fill.node.tag))
               THEN matrixMult(parseTransform(<<>>),
                               matrixMult(Matrix(bb[3], 0, 0, bb[4], bb[1], bb[2]),
                                          computeNodeTransform(f.node)))
               ELSE unitMatrix
     IN  /\ stack' = SetTop([f EXCEPT !.gradient = ScopedId(f.prefix, f.node.fill),
                                      !.gradientMatrix = gm, !.pc = "draw"])
         /\ lastLookup' = LookupRecord(f, fill)
  /\ ops' = Append(ops, PlainOp("setGState"))
  /\ UNCHANGED <<status, heapDefs, heapPrefix, budget, decls, uses, finished, ptVars, fnVars>>

\* a fill of url(#id) that getFromDefs does not resolve: fill is undefined
\* and fill.tagName throws; nothing catches it
PaintThrows ==
  /\ At0("paint")
  /\ Top.node.tag \in FillTags /\ Top.node.fill # NoAttr
  /\ FillLookup(Top) = NotFound
  /\ lastLookup' = LookupRecord(Top, NotFound)
  /\ status' = "crashed"
  /\ UNCHANGED <<stack, heapDefs, heapPrefix, ops, budget, decls, uses, finished, ptVars, fnVars>>

\* case 'svg': svg() makes a child prefix, clones the defs and starts
\* findAndRenderDefs
DrawSvg ==
  /\ At0("draw") /\ Top.node.tag = "svg"
  /\ LET f == Top
         np == NextChild(heapPrefix, f.prefix)
         nd == cloneDefs(heapDefs, f.defs)
     IN  /\ heapPrefix' = np.heap
         /\ heapDefs' = nd.heap
         /\ stack' = SetTop([f EXCEPT !.cprefix = np.ref, !.cdefs = nd.ref,
                                      !.cscope = f.path, !.cwithin = f.wd,
                                      !.defsAtEntry = heapDefs[f.defs],
                                      !.pc = "finddefs", !.i = 1])
  /\ UNCHANGED <<status, ops, budget, lastLookup, decls, uses, finished, ptVars, fnVars>>

\* case 'g': findAndRenderDefs first, then (falling through) renderChildren
DrawGroup ==
  /\ At0("draw") /\ Top.node.tag = "g"
  /\ stack' = SetTop([Top EXCEPT !.cwithin = Top.wd, !.pc = "finddefs", !.i = 1])
  /\ UNCHANGED <<status, heapDefs, heapPrefix, ops, budget, lastLookup, decls, uses, finished, ptVars, fnVars>>

\* case 'defs': renderChildren(n, tfMatrix, defs, svgIdPrefix, true)
DrawDefs ==
  /\ At0("draw") /\ Top.node.tag = "defs"
  /\ stack' = SetTop([Top EXCEPT !.cwithin = TRUE, !.pc = "children", !.i = 1])
  /\ UNCHANGED <<status, heapDefs, heapPrefix, ops, budget, lastLookup, decls, uses, finished, ptVars, fnVars>>

UseKey(f) == ScopedId(f.prefix, f.node.href)

UseRecord(f) == [path |-> f.path, href |-> f.node.href, scope |-> f.scope, m |-> f.tfMatrix]

\* the matrix use() invokes the form object with: no x, y, width or height
\* attribute is set, so width and height are the form object's own
UseMatrix(fo, tfMatrix) ==
  matrixMult(IF fo.w > 0 /\ fo.h > 0
             THEN Matrix(fo.w \div fo.w, 0, 0, fo.h \div fo.h, 0, 0)
             ELSE unitMatrix,
             tfMatrix)

\* case 'use', the backend knowing the key
DrawUse ==
  /\ At0("draw") /\ Top.node.tag = "use"
  /\ Top.node.href # NoAttr
  /\ Registered(ops, UseKey(Top))
  /\ LET f == Top
     IN  /\ ops' = Append(ops, Op("doFormObject", UseKey(f),
                                  UseMatrix(FormObject(ops, UseKey(f)), f.tfMatrix), f.path, 0, 0))
         /\ uses' = uses \cup {UseRecord(f)}
         /\ stack' = SetTop([f EXCEPT !.pc = "exit"])
  /\ UNCHANGED <<status, heapDefs, heapPrefix, budget, lastLookup, decls, finished, ptVars, fnVars>>

\* case 'use', the backend not knowing the key: what getFormObject does then
\* is the backend's business.  Either the call (or reading .width of what it
\* returns) throws, or the object is invoked under the unknown key.
DrawUseUnknown ==
  /\ At0("draw") /\ Top.node.tag = "use"
  /\ Top.node.href # NoAttr
  /\ ~Registered(ops, UseKey(Top))
  /\ \E throws \in BOOLEAN :
       LET f == Top
       IN  /\ status' = IF throws THEN "crashed" ELSE status
           /\ ops' = IF throws THEN ops
                     ELSE Append(ops, Op("doFormObject", UseKey(f),
                                         matrixMult(unitMatrix, f.tfMatrix), f.path, 0, 0))
           /\ stack' = IF throws THEN stack ELSE SetTop([f EXCEPT !.pc = "exit"])
           /\ uses' = uses \cup {UseRecord(f)}
  /\ UNCHANGED <<heapDefs, heapPrefix, budget, lastLookup, decls, finished, ptVars, fnVars>>

\* case 'rect' (the transform is set, then roundedRect) and case 'line'
DrawShape ==
  /\ At0("draw") /\ Top.node.tag \in {"rect", "line"}
  /\ LET f == Top
     IN  /\ ops' = IF f.node.tag = "rect"
                   THEN ops \o <<Op("setCurrentTransformationMatrix", NoAttr, f.tfMatrix, f.path, 0, 0),
                                 Op("roundedRect", f.gradient, f.gradientMatrix, f.path, f.node.w, f.node.h)>>
                   ELSE Append(ops, Op("line", NoAttr, f.tfMatrix, f.path, 0, 0))
         /\ stack' = SetTop([f EXCEPT !.pc = "exit"])
  /\ UNCHANGED <<status, heapDefs, heapPrefix, budget, lastLookup, decls, uses, finished, ptVars, fnVars>>

\* case "lineargradient": putGradient adds the pattern and defs[id] = node
DrawGradient ==
  /\ At0("draw") /\ Top.node.tag = "lineargradient"
  /\ LET f == Top
         id == ScopedId(f.prefix, AttrText(f.node.id))
     IN  /\ ops' = Append(ops, Op("addPattern", id, unitMatrix, f.path, 0, 0))
         /\ heapDefs' = [heapDefs EXCEPT ![f.defs] =
                           PutDef(@, id, [path |-> f.path, scope |-> f.scope, tag |-> f.node.tag])]
         /\ stack' = SetTop([f EXCEPT !.pc = "exit"])
  /\ UNCHANGED <<status, heapPrefix, budget, lastLookup, decls, uses, finished, ptVars, fnVars>>

\* the children findAndRenderDefs has still to look at that are defs elements
DefsAhead(f) == {j \in f.i..Len(f.snap) : f.snap[j].tag = "defs"}

ChildFrame(f, j, withinDefs) ==
  Frame(Append(f.path, j), f.node.tag, f.snap[j], f.tfMatrix, f.cdefs, f.cprefix,
        withinDefs, f.cscope)

\* findAndRenderDefs: the next child that is a defs element is rendered
findAndRenderDefs(f) ==
  LET j == Min(DefsAhead(f))
  IN  Append(SetTop([f EXCEPT !.i = j]), ChildFrame(f, j, f.wd))

FindDefsCall ==
  /\ At0("finddefs")
  /\ DefsAhead(Top) # {}
  /\ stack' = findAndRenderDefs(Top)
  /\ UNCHANGED <<status, heapDefs, heapPrefix, ops, budget, lastLookup, decls, uses, finished, ptVars, fnVars>>

\* findAndRenderDefs has looked at every child: renderChildren starts
FindDefsDone ==
  /\ At0("finddefs")
  /\ DefsAhead(Top) = {}
  /\ stack' = SetTop([Top EXCEPT !.pc = "children", !.i = 1])
  /\ UNCHANGED <<status, heapDefs, heapPrefix, ops, budget, lastLookup, decls, uses, finished, ptVars, fnVars>>

\* renderChildren: the next child still in the tree is rendered
ChildCall ==
  /\ At0("children")
  /\ Top.i <= Len(Top.live)
  /\ stack' = Append(stack, ChildFrame(Top, Top.live[Top.i], Top.cwithin))
  /\ UNCHANGED <<status, heapDefs, heapPrefix, ops, budget, lastLookup, decls, uses, finished, ptVars, fnVars>>

ChildrenDone ==
  /\ At0("children")
  /\ Top.i > Len(Top.live)
  /\ stack' = SetTop([Top EXCEPT !.pc = "exit"])
  /\ UNCHANGED <<status, heapDefs, heapPrefix, ops, budget, lastLookup, decls, uses, finished, ptVars, fnVars>>

\* the caller after renderNode(child) returns: findAndRenderDefs removes the
\* defs child from the tree; both loops go on to the next child
AfterChild(p, j) ==
  IF p.pc = "finddefs"
  THEN [p EXCEPT !.live = SelectSeq(p.live, LAMBDA x : x # j), !.i = j + 1]
  ELSE [p EXCEPT !.i = p.i + 1]

\* "close either the formObject or the graphics context", and return
Exit ==
  /\ At0("exit")
  /\ LET f == Top
         bb == getUntransformedBBox(f.node)
         n == Len(stack)
     IN  /\ ops' = Append(ops, IF f.isFO
                               THEN Op("endFormObject", ScopedId(f.prefix, AttrText(f.node.id)),
                                       unitMatrix, f.path, bb[3], bb[4])
                               ELSE PlainOp("restoreGraphicsState"))
         /\ finished' = finished \cup {f.path}
         /\ stack' = IF n = 1 THEN <<>>
                     ELSE [k \in 1..(n - 1) |->
                            IF k = n - 1 THEN AfterChild(stack[k], f.path[Len(f.path)])
                            ELSE stack[k]]
  /\ UNCHANGED <<status, heapDefs, heapPrefix, budget, lastLookup, decls, uses, ptVars, fnVars>>

\* svgElementToPdf after renderNode(root) returns
Finish ==
  /\ status = "running" /\ stack = <<>>
  /\ ops' = Append(ops, PlainOp("restoreGraphicsState"))
  /\ status' = "done"
  /\ UNCHANGED <<stack, heapDefs, heapPrefix, budget, lastLookup, decls, uses, finished, ptVars, fnVars>>

Next ==
  \/ Start
  \/ Enter
  \/ PaintPlain
  \/ PaintGradient
  \/ PaintThrows
  \/ DrawSvg
  \/ DrawGroup
  \/ DrawDefs
  \/ DrawUse
  \/ DrawUseUnknown
  \/ DrawShape
  \/ DrawGradient
  \/ FindDefsCall
  \/ FindDefsDone
  \/ ChildCall
  \/ ChildrenDone
  \/ Exit
  \/ Finish

Spec == Init /\ [][Next]_vars

(***************************************************************************)
(* parseTransform as a process: one action per statement of its loop.      *)
(***************************************************************************)
PTItems ==
  { Call("matrix", <<1, 0, 0, 1, 0, 3>>), Call("rotate", <<90>>),
    Call("translate", <<10, 0>>), Call("scale", <<2>>),
    Call("skewX", <<0>>), Call("skewY", <<0>>), Blank, Word }

PTInputs == SeqsUpTo(PTItems, MaxLen)

\* what each regular expression finds on each string the loop can hold
\* (every string it holds is an input string with a match removed)
ExecTable ==
  [s \in PTInputs |-> [fn \in {BranchOrder[i] : i \in 1..Len(BranchOrder)} |-> RegexExec(s, fn)]]

PTInit ==
  /\ ptInput \in PTInputs
  /\ ptStr = ptInput
  /\ ptM = unitMatrix
  /\ ptPc = "entry"
  /\ fnArg = <<>> /\ fnRes = <<>> /\ fnPc = "idle"
  /\ status = "idle" /\ stack = <<>> /\ heapDefs = <<>> /\ heapPrefix = <<>>
  /\ ops = <<>> /\ budget = 0 /\ decls = {} /\ uses = {} /\ finished = {}
  /\ lastLookup = [node |-> <<>>, scope |-> <<>>, prefix |-> <<>>, id |-> <<>>,
                   defs |-> {}, found |-> FALSE, result |-> NotFound.node]

\* if (!transformString) return unitMatrix; ... resultMatrix = unitMatrix
PTEntry ==
  /\ ptPc = "entry"
  /\ ptPc' = IF Len(ptStr) = 0 THEN "done" ELSE "while"
  /\ ptM' = unitMatrix
  /\ UNCHANGED <<ptInput, ptStr, trVars, fnVars>>

\* while (transformString.length > 0)
PTWhile ==
  /\ ptPc = "while"
  /\ ptPc' = IF Len(ptStr) > 0 THEN "matrix" ELSE "done"
  /\ UNCHANGED <<ptInput, ptStr, ptM, trVars, fnVars>>

\* the state a branch of the loop body leaves: the string and the matrix
PTApply(fn) ==
  LET ex == ExecTable[ptStr][fn]
  IN  ptStr' = ex.rest /\ ptM' = BranchResult(fn, ex, ptM)

PTMatrix ==
  /\ ptPc = "matrix"
  /\ PTApply("matrix")
  /\ ptPc' = "rotate"
  /\ UNCHANGED <<ptInput, trVars, fnVars>>

PTRotate ==
  /\ ptPc = "rotate"
  /\ PTApply("rotate")
  /\ ptPc' = "translate"
  /\ UNCHANGED <<ptInput, trVars, fnVars>>

PTTranslate ==
  /\ ptPc = "translate"
  /\ PTApply("translate")
  /\ ptPc' = "scale"
  /\ UNCHANGED <<ptInput, trVars, fnVars>>

PTScale ==
  /\ ptPc = "scale"
  /\ PTApply("scale")
  /\ ptPc' = "skewX"
  /\ UNCHANGED <<ptInput, trVars, fnVars>>

PTSkewX ==
  /\ ptPc = "skewX"
  /\ PTApply("skewX")
  /\ ptPc' = "skewY"
  /\ UNCHANGED <<ptInput, trVars, fnVars>>

PTSkewY ==
  /\ ptPc = "skewY"
  /\ PTApply("skewY")
  /\ ptPc' = "while"
  /\ UNCHANGED <<ptInput, trVars, fnVars>>

PTNext ==
  \/ PTEntry
  \/ PTWhile
  \/ PTMatrix
  \/ PTRotate
  \/ PTTranslate
  \/ PTScale
  \/ PTSkewX
  \/ PTSkewY

\* the interpreter runs the loop without pause: a step that can be taken is taken
SpecPT == PTInit /\ [][PTNext]_vars /\ WF_vars(PTNext)

(***************************************************************************)
(* Properties of the traversal, stated for Spec.                           *)
(***************************************************************************)
IsPrefix(s, t) == Len(s) <= Len(t) /\ SubSeq(t, 1, Len(s)) = s

OpsOf(op, path) == {k \in OpIdx(ops, op) : ops[k].node = path}

\* C1: after any traversal, one in which a node fails included, the backend
\* has been given as many restores as saves and as many endFormObject calls
\* as beginFormObject calls.
C1_EntryExitBalanced ==
  status \in {"done", "crashed"} =>
    /\ CountOps(ops, "restoreGraphicsState") = CountOps(ops, "saveGraphicsState")
    /\ CountOps(ops, "endFormObject") = CountOps(ops, "beginFormObject")

\* C2: a reference that matches no definition is never fatal and invokes
\* nothing: the traversal does not abort, and every form object invoked had
\* been registered under that key before.
C2_UnresolvedReferenceHarmless ==
  /\ status # "crashed"
  /\ \A k \in OpIdx(ops, "doFormObject") : Registered(SubSeq(ops, 1, k - 1), ops[k].key)

\* the shapes declared as direct children of a defs element under an id no
\* other declaration of the document shares
ShapeDecls ==
  {d \in decls : /\ d.node.tag \in {"rect", "line"}
                 /\ \A e \in decls : e.key = d.key => e = d}

\* the use elements of d's scope that name d's id
RefsTo(d) == {u \in uses : u.href = d.node.id /\ u.scope = d.scope}

\* C3: a shape declared in a defs element has exactly one
\* beginFormObject/endFormObject pair by the time a use element naming it is
\* processed, and once the traversal is over it has been invoked exactly
\* once per such use element, each time with that element's own transform.
C3_CompileOnceInvokeMany ==
  \A d \in ShapeDecls :
    /\ RefsTo(d) # {} =>
         /\ Cardinality(OpsOf("beginFormObject", d.path)) = 1
         /\ Cardinality({k \in OpsOf("endFormObject", d.path) : ops[k].key = d.key}) = 1
    /\ status = "done" =>
         /\ Cardinality({k \in OpIdx(ops, "doFormObject") : ops[k].key = d.key})
              = Cardinality(RefsTo(d))
         /\ \A u \in RefsTo(d) :
              \E k \in OpsOf("doFormObject", u.path) : ops[k].key = d.key /\ ops[k].m = u.m

\* the lookup that tries prefix + id and strips the innermost segment of the
\* prefix, and nothing else, until no segment of the prefix remains
RECURSIVE ScopedLookup(_, _, _)
ScopedLookup(prefix, id, defs) ==
  IF HasKey(defs, prefix \o id) THEN Entry(defs, prefix \o id)
  ELSE IF prefix = <<>> THEN NotFound
  ELSE ScopedLookup(Tail(prefix), id, defs)

\* C4: a url(#id) lookup made in a scope resolves to the entry stored under
\* the scope's prefix + id, else under the prefix with innermost segments
\* stripped one at a time, and fails when no segment of the prefix remains.
C4_ScopedLookup ==
  lastLookup.prefix # <<>> =>
    LET r == ScopedLookup(lastLookup.prefix, lastLookup.id, lastLookup.defs)
    IN  /\ lastLookup.found = (r # NotFound)
        /\ lastLookup.result = r.node

C6_DefinitionsBeforeContent ==
  \A k \in 1..Len(stack) :
    (stack[k].node.tag \in {"svg", "g"} /\ stack[k].pc = "children") =>
      \A j \in 1..Len(stack[k].snap) :
        stack[k].snap[j].tag = "defs" =>
          /\ Append(stack[k].path, j) \in finished
          /\ \A d \in decls :
               (Len(d.path) > 0 /\ SubSeq(d.path, 1, Len(d.path) - 1) = Append(stack[k].path, j)) =>
                 IF d.node.tag = "lineargradient"
                 THEN HasKey(heapDefs[stack[k].cdefs], d.key)
                 ELSE Registered(ops, d.key)

\* C7: a direct child of a defs element that is not a gradient begins a form
\* object, works with the unit matrix inside it, and ends it under its scoped
\* id; a gradient never begins a form object.
C7_ReusableObjectDecision ==
  \A d \in decls :
    IF d.node.tag \in {"lineargradient", "radialgradient"}
    THEN OpsOf("beginFormObject", d.path) = {}
    ELSE /\ OpsOf("beginFormObject", d.path) # {}
         /\ \A k \in 1..Len(stack) :
              (stack[k].path = d.path /\ stack[k].pc # "enter") => stack[k].tfMatrix = unitMatrix
         /\ d.path \in finished =>
              \E k \in OpsOf("endFormObject", d.path) : ops[k].key = d.key

\* C8: at every point of a traversal at most one form object is open.
C8_OneFormObjectOpen ==
  CountOps(ops, "beginFormObject") - CountOps(ops, "endFormObject") <= 1

(***************************************************************************)
(* Properties of parseTransform, stated for SpecPT.                        *)
(***************************************************************************)
\* the matrix of one function written alone
SingleMatrix(call) == parseTransform(<<call>>)

\* the functions of a string taken left to right, each pre-multiplied onto
\* the matrix accumulated so far: acc := compose(parsed, acc)
RECURSIVE WrittenOrder(_, _)
WrittenOrder(str, acc) ==
  IF Len(str) = 0 THEN acc
  ELSE IF Head(str).k = "call"
       THEN WrittenOrder(Tail(str), matrixMult(SingleMatrix(Head(str)), acc))
       ELSE WrittenOrder(Tail(str), acc)

\* C9: when parseTransform returns, its result is the composition of the
\* string's functions in written order, each pre-multiplied onto the
\* accumulated matrix; so "translate(10,0) scale(2)" maps (1,0) to (12,0).
C9_WrittenOrderComposition ==
  ptPc = "done" => ptM = WrittenOrder(ptInput, unitMatrix)

\* C10: parseTransform returns on every input string.
C10_ParseTransformTerminates == <>(ptPc = "done")

(***************************************************************************)
(* The functions checked on their own.  While one of them runs, the        *)
(* traversal and parseTransform are idle.                                  *)
(***************************************************************************)
PtIdle == ptInput = <<>> /\ ptStr = <<>> /\ ptM = unitMatrix /\ ptPc = "idle"

TrIdle ==
  /\ status = "idle" /\ stack = <<>> /\ heapDefs = <<>> /\ heapPrefix = <<>>
  /\ ops = <<>> /\ budget = 0 /\ decls = {} /\ uses = {} /\ finished = {}
  /\ lastLookup = [node |-> <<>>, scope |-> <<>>, prefix |-> <<>>, id |-> <<>>,
                   defs |-> {}, found |-> FALSE, result |-> NotFound.node]

(***************************************************************************)
(* transformBBox.                                                          *)
(***************************************************************************)
\* the four corners of a box, mapped through a matrix
BoxCorners(box, matrix) ==
  { multVecMatrix(<<box[1], box[2]>>, matrix),
    multVecMatrix(<<box[1] + box[3], box[2]>>, matrix),
    multVecMatrix(<<box[1], box[2] + box[4]>>, matrix),
    multVecMatrix(<<box[1] + box[3], box[2] + box[4]>>, matrix) }

\* the box spanned from the mapped corner bl to the mapped corner tr
transformBBoxDiagonal(box, matrix) ==
  LET bl == multVecMatrix(<<box[1], box[2]>>, matrix)
      tr == multVecMatrix(<<box[1] + box[3], box[2] + box[4]>>, matrix)
  IN  <<bl[1], bl[2], tr[1] - bl[1], tr[2] - bl[2]>>

transformBBox(box, matrix) ==
  LET bl == multVecMatrix(<<box[1], box[2]>>, matrix)
      br == multVecMatrix(<<box[1] + box[3], box[2]>>, matrix)
      tl == multVecMatrix(<<box[1], box[2] + box[4]>>, matrix)
      tr == multVecMatrix(<<box[1] + box[3], box[2] + box[4]>>, matrix)
      bottom == Min({bl[2], br[2], tl[2], tr[2]})
      left == Min({bl[1], br[1], tl[1], tr[1]})
      top == Max({bl[2], br[2], tl[2], tr[2]})
      right == Max({bl[1], br[1], tl[1], tr[1]})
  IN  <<left, bottom, right - left, top - bottom>>

\* the boxes and matrices transformBBox is run on
BoxCoords == {-1, 0, 3}
BoxSizes == {-2, 0, 10, 20}
Boxes == {<<x, y, w, h>> : x \in BoxCoords, y \in BoxCoords, w \in BoxSizes, h \in BoxSizes}

BoxMatrices ==
  { unitMatrix, Matrix(1, 0, 0, 1, 5, 5), Matrix(2, 0, 0, 2, 0, 0), Matrix(0, 1, -1, 0, 0, 0),
    Matrix(-1, 0, 0, 1, 0, 0), Matrix(1, 1, -1, 1, 0, 0), Matrix(0, 0, 0, 0, 0, 0) }

TBInit ==
  /\ fnArg \in {[box |-> b, matrix |-> m] : b \in Boxes, m \in BoxMatrices}
  /\ fnRes = <<>>
  /\ fnPc = "transformBBox"
  /\ PtIdle /\ TrIdle

TBCall ==
  /\ fnPc = "transformBBox"
  /\ fnRes' = transformBBox(fnArg.box, fnArg.matrix)
  /\ fnPc' = "done"
  /\ UNCHANGED <<fnArg, ptVars, trVars>>

SpecTransformBBox == TBInit /\ [][TBCall]_vars

\* C11: transformBBox returns a box of width and height >= 0 that contains
\* the four mapped corners, each of its sides touching one of them; the unit
\* matrix returns a box of non-negative size unchanged, and (0,0,10,20)
\* under translate(5,5) gives (5,5,10,20).
C11_TransformBBox ==
  fnPc = "done" =>
    LET r == fnRes
        cs == BoxCorners(fnArg.box, fnArg.matrix)
    IN  /\ r[3] >= 0 /\ r[4] >= 0
        /\ \A c \in cs : /\ r[1] <= c[1] /\ c[1] <= r[1] + r[3]
                         /\ r[2] <= c[2] /\ c[2] <= r[2] + r[4]
        /\ \E c \in cs : c[1] = r[1]
        /\ \E c \in cs : c[1] = r[1] + r[3]
        /\ \E c \in cs : c[2] = r[2]
        /\ \E c \in cs : c[2] = r[2] + r[4]
        /\ (fnArg.matrix = unitMatrix /\ fnArg.box[3] >= 0 /\ fnArg.box[4] >= 0) => r = fnArg.box
        /\ (fnArg.box = <<0, 0, 10, 20>> /\ fnArg.matrix = Matrix(1, 0, 0, 1, 5, 5))
             => r = <<5, 5, 10, 20>>

\* transformBBox has returned (5,5,10,20) for (0,0,10,20) under translate(5,5)
C11_Witness ==
  /\ fnPc = "done"
  /\ fnArg = [box |-> <<0, 0, 10, 20>>, matrix |-> Matrix(1, 0, 0, 1, 5, 5)]
  /\ fnRes = <<5, 5, 10, 20>>

(***************************************************************************)
(* Elements with numeric attributes.  An attribute holds what parseFloat   *)
(* makes of its text: NaN when the attribute is absent.                    *)
(***************************************************************************)
ElemAttrs ==
  { "x", "y", "width", "height", "cx", "cy", "r", "rx", "ry", "x1", "y1", "x2", "y2",
    "marker-width", "marker-height" }

NoAttrs == [a \in ElemAttrs |-> NaN]

\* an element: tag, attributes, and for the kinds that have them the numbers
\* of its points attribute, its path segments and the numbers of its viewBox
Elem(tag, attrs) ==
  [tag |-> tag, attr |-> attrs @@ NoAttrs, points |-> <<>>, segs |-> <<>>, viewBox |-> <<>>]

\* a || b
Or(a, b) == IF Truthy(a) THEN a ELSE b

(***************************************************************************)
(* rect, ellipse and circle, as renderNode dispatches to them.             *)
(***************************************************************************)
DrawCall(op, args) == [op |-> op, args |-> args]

\* case 'rect': _pdf.setCurrentTransformationMatrix(tfMatrix); rect(n, ...)
rect(n) ==
  <<DrawCall("setCurrentTransformationMatrix", <<>>),
    DrawCall("roundedRect", <<Or(n.attr["x"], Num(0)), Or(n.attr["y"], Num(0)),
                              n.attr["width"], n.attr["height"],
                              Or(n.attr["rx"], Num(0)), Or(n.attr["ry"], Num(0))>>)>>

\* case 'ellipse'
ellipse(n) ==
  <<DrawCall("setCurrentTransformationMatrix", <<>>),
    DrawCall("ellipse", <<Or(n.attr["cx"], Num(0)), Or(n.attr["cy"], Num(0)),
                          n.attr["rx"], n.attr["ry"]>>)>>

\* case 'circle'
circle(n) ==
  LET radius == Or(n.attr["r"], Num(0))
  IN  <<DrawCall("setCurrentTransformationMatrix", <<>>),
        DrawCall("ellipse", <<Or(n.attr["cx"], Num(0)), Or(n.attr["cy"], Num(0)),
                              radius, radius>>)>>

\* the values a size or position attribute takes: absent, zero, negative,
\* positive
SizeValues == {NaN, Num(0), Num(-5), Num(10)}
PosValues == {NaN, Num(3)}

SizedShapes ==
  {Elem("rect", ("x" :> x) @@ ("width" :> w) @@ ("height" :> h)) :
     x \in PosValues, w \in SizeValues, h \in SizeValues}
  \cup {Elem("ellipse", ("cx" :> x) @@ ("rx" :> w) @@ ("ry" :> h)) :
          x \in PosValues, w \in SizeValues, h \in SizeValues}
  \cup {Elem("circle", ("cx" :> x) @@ ("cy" :> y) @@ ("r" :> w)) :
          x \in PosValues, y \in PosValues, w \in SizeValues}

DSInit ==
  /\ fnArg \in SizedShapes
  /\ fnRes = <<>>
  /\ fnPc = "draw"
  /\ PtIdle /\ TrIdle

DSRect ==
  /\ fnPc = "draw" /\ fnArg.tag = "rect"
  /\ fnRes' = rect(fnArg)
  /\ fnPc' = "done"
  /\ UNCHANGED <<fnArg, ptVars, trVars>>

DSEllipse ==
  /\ fnPc = "draw" /\ fnArg.tag = "ellipse"
  /\ fnRes' = ellipse(fnArg)
  /\ fnPc' = "done"
  /\ UNCHANGED <<fnArg, ptVars, trVars>>

DSCircle ==
  /\ fnPc = "draw" /\ fnArg.tag = "circle"
  /\ fnRes' = circle(fnArg)
  /\ fnPc' = "done"
  /\ UNCHANGED <<fnArg, ptVars, trVars>>

DSNext == DSRect \/ DSEllipse \/ DSCircle

SpecDrawShape == DSInit /\ [][DSNext]_vars

Positive(x) == ~x.nan /\ (x.inf = 1 \/ (x.inf = 0 /\ x.v > 0))

\* the size attributes of a shape are all present and positive
ValidSize(n) ==
  CASE n.tag = "rect" -> Positive(n.attr["width"]) /\ Positive(n.attr["height"])
    [] n.tag = "ellipse" -> Positive(n.attr["rx"]) /\ Positive(n.attr["ry"])
    [] n.tag = "circle" -> Positive(n.attr["r"])

\* C12: a rect, circle or ellipse whose size attribute is missing or not
\* positive gives the backend no draw primitive.
C12_InvalidSizeOmitsShape ==
  (fnPc = "done" /\ ~ValidSize(fnArg)) =>
    \A k \in 1..Len(fnRes) : fnRes[k].op \notin {"roundedRect", "ellipse"}

(***************************************************************************)
(* Paths.  A path segment list is what getPathSegList returns: one record  *)
(* per command letter with the coordinates that command reads.  All        *)
(* coordinates are multiples of 3, so that 2/3 of a difference is whole.   *)
(***************************************************************************)
PSeg(cmd, x1, y1, x2, y2, x, y) ==
  [cmd |-> cmd, x1 |-> x1, y1 |-> y1, x2 |-> x2, y2 |-> y2, x |-> x, y |-> y]

\* a variable that holds undefined
Undef == <<>>

\* mirrors p1 at p2
mirrorPoint(p1, p2) ==
  LET dx == p2[1] - p1[1]
      dy == p2[2] - p1[2]
  IN  <<p1[1] + 2 * dx, p1[2] + 2 * dy>>

\* from + (2/3) * (to - from)
toCubic(from, to) ==
  <<(2 * (to[1] - from[1])) \div 3 + from[1], (2 * (to[2] - from[2])) \div 3 + from[2]>>

\* getControlPointFromPrevious(i, from, list, prevX, prevY); i counts from 1
getControlPointFromPrevious(i, from, list, prevX, prevY) ==
  IF i > 1 /\ list[i - 1].cmd \in {"C", "S"}
  THEN mirrorPoint(<<list[i - 1].x2, list[i - 1].y2>>, from)
  ELSE IF i > 1 /\ list[i - 1].cmd \in {"c", "s"}
  THEN mirrorPoint(<<list[i - 1].x2 + prevX, list[i - 1].y2 + prevY>>, from)
  ELSE <<from[1], from[2]>>

CurveCmds == {"s", "S", "c", "C", "q", "Q", "t", "T"}
LineCmds == {"l", "L", "h", "H", "v", "V", "m", "M"}
CloseCmds == {"Z", "z"}

\* the locals of getLinesFromPath before its loop; p is not declared in the
\* function, so it holds what an earlier call left in it
PathLocals(p0) ==
  [ i |-> 1, x |-> 0, y |-> 0, x0 |-> 0, y0 |-> 0, prevX |-> 0, prevY |-> 0,
    from |-> Undef, to |-> Undef, p |-> p0, p2 |-> Undef, p3 |-> Undef, op |-> "",
    lines |-> <<>>, markers |-> <<>> ]

\* the switch (cmd) of the loop body
PathSwitch(st, list) ==
  LET seg == list[st.i]
      cur == <<st.x, st.y>>
      cp == getControlPointFromPrevious(st.i, cur, list, st.prevX, st.prevY)
  IN  CASE seg.cmd = "M" ->
             [st EXCEPT !.x0 = st.x, !.y0 = st.y, !.to = <<seg.x, seg.y>>, !.op = "m"]
        [] seg.cmd = "m" ->
             [st EXCEPT !.x0 = st.x, !.y0 = st.y, !.to = <<seg.x + st.x, seg.y + st.y>>, !.op = "m"]
        [] seg.cmd = "L" -> [st EXCEPT !.to = <<seg.x, seg.y>>, !.op = "l"]
        [] seg.cmd = "l" -> [st EXCEPT !.to = <<seg.x + st.x, seg.y + st.y>>, !.op = "l"]
        [] seg.cmd = "H" -> [st EXCEPT !.to = <<seg.x, st.y>>, !.op = "l", !.x = seg.x]
        [] seg.cmd = "h" -> [st EXCEPT !.to = <<seg.x + st.x, st.y>>, !.op = "l", !.x = seg.x + st.x]
        [] seg.cmd = "V" -> [st EXCEPT !.to = <<st.x, seg.y>>, !.op = "l", !.y = seg.y]
        [] seg.cmd = "v" -> [st EXCEPT !.to = <<st.x, seg.y + st.y>>, !.op = "l", !.y = seg.y + st.y]
        [] seg.cmd = "C" ->
             [st EXCEPT !.p2 = <<seg.x1, seg.y1>>, !.p3 = <<seg.x2, seg.y2>>, !.to = <<seg.x, seg.y>>]
        [] seg.cmd = "c" ->
             [st EXCEPT !.p2 = <<seg.x1 + st.x, seg.y1 + st.y>>,
                        !.p3 = <<seg.x2 + st.x, seg.y2 + st.y>>,
                        !.to = <<seg.x + st.x, seg.y + st.y>>]
        [] seg.cmd = "S" ->
             [st EXCEPT !.p2 = cp, !.p3 = <<seg.x2, seg.y2>>, !.to = <<seg.x, seg.y>>]
        [] seg.cmd = "s" ->
             [st EXCEPT !.p2 = cp, !.p3 = <<seg.x2 + st.x, seg.y2 + st.y>>,
                        !.to = <<seg.x + st.x, seg.y + st.y>>]
        [] seg.cmd = "Q" ->
             [st EXCEPT !.p = <<seg.x1, seg.y1>>,
                        !.p2 = toCubic(cur, <<seg.x1, seg.y1>>),
                        !.p3 = toCubic(<<seg.x, seg.y>>, <<seg.x1, seg.y1>>),
                        !.to = <<seg.x, seg.y>>]
        [] seg.cmd = "q" ->
             [st EXCEPT !.p = <<seg.x1 + st.x, seg.y1 + st.y>>,
                        !.p2 = toCubic(cur, <<seg.x1 + st.x, seg.y1 + st.y>>),
                        !.p3 = toCubic(<<st.x + seg.x, st.y + seg.y>>, <<seg.x1 + st.x, seg.y1 + st.y>>),
                        !.to = <<seg.x + st.x, seg.y + st.y>>]
        \* p2 = getControlPointFromPrevious(...) is overwritten at once; p is
        \* whatever the segment before left in it
        [] seg.cmd = "T" ->
             [st EXCEPT !.p2 = toCubic(cur, st.p),
                        !.p3 = toCubic(<<seg.x, seg.y>>, st.p),
                        !.to = <<seg.x, seg.y>>]
        [] seg.cmd = "t" ->
             [st EXCEPT !.p = cp,
                        !.p2 = toCubic(cur, cp),
                        !.p3 = toCubic(<<st.x + seg.x, st.y + seg.y>>, cp),
                        !.to = <<seg.x + st.x, seg.y + st.y>>]
        [] seg.cmd \in CloseCmds ->
             [st EXCEPT !.x = st.x0, !.y = st.y0, !.lines = Append(st.lines, [op |-> "h", c |-> <<>>])]
        [] OTHER -> st

\* the lines.push of the loop body
PathPush(st, cmd, tfMatrix) ==
  IF cmd \in CurveCmds
  THEN LET q2 == multVecMatrix(st.p2, tfMatrix)
           q3 == multVecMatrix(st.p3, tfMatrix)
           q == multVecMatrix(st.to, tfMatrix)
       IN  [st EXCEPT !.from = st.p3, !.prevX = st.x, !.prevY = st.y,
                      !.p2 = q2, !.p3 = q3, !.p = q,
                      !.lines = Append(st.lines, [op |-> "c", c |-> q2 \o q3 \o q])]
  ELSE IF cmd \in LineCmds
  THEN LET q == multVecMatrix(st.to, tfMatrix)
       IN  [st EXCEPT !.from = <<st.x, st.y>>, !.p = q,
                      !.lines = Append(st.lines, [op |-> st.op, c |-> q])]
  ELSE st

\* i === list.numberOfItems - 1 || (cmd is not m/M and the next one is)
AtSubpathEnd(i, list) ==
  IF i = Len(list)
  THEN TRUE
  ELSE list[i].cmd \notin {"m", "M"} /\ list[i + 1].cmd \in {"m", "M"}

\* markers.push: the angle of from -> to, at to, under tfMatrix
PathMarker(st, list, tfMatrix) ==
  IF AtSubpathEnd(st.i, list)
  THEN [st EXCEPT !.markers = Append(st.markers,
                     [type |-> "end", from |-> st.from, to |-> st.to, tf |-> tfMatrix])]
  ELSE st

\* the update of the current point that ends the loop body
PathAdvance(st, seg) ==
  IF seg.cmd \in {"M", "L", "C", "S", "Q", "T"}
  THEN [st EXCEPT !.x = seg.x, !.y = seg.y, !.i = st.i + 1]
  ELSE IF seg.cmd \in {"m", "l", "c", "s", "q", "t"}
  THEN [st EXCEPT !.x = seg.x + st.x, !.y = seg.y + st.y, !.i = st.i + 1]
  ELSE [st EXCEPT !.i = st.i + 1]

\* the loop body throws: toCubic reads p[0] of an undefined p, or the marker
\* reads to[1] or from[1] of an undefined to or from
PathThrows(st, list) ==
  \/ list[st.i].cmd = "T" /\ st.p = Undef
  \/ /\ AtSubpathEnd(st.i, list)
     /\ list[st.i].cmd \notin CurveCmds \cup LineCmds
     /\ (st.to = Undef \/ st.from = Undef)

\* one pass through the loop body
PathStep(st, list, tfMatrix) ==
  PathAdvance(PathMarker(PathPush(PathSwitch(st, list), list[st.i].cmd, tfMatrix), list, tfMatrix), list[st.i])

\* what one pass did: the command, the current point before and after it, the
\* first control point the segment was drawn with and its second one (both
\* before tfMatrix is applied; a quadratic segment has one control point)
PathLog(st, list, tfMatrix) ==
  LET cmd == list[st.i].cmd
      sw == PathSwitch(st, list)
      nx == PathStep(st, list, tfMatrix)
  IN  [ cmd |-> cmd, before |-> <<st.x, st.y>>, after |-> <<nx.x, nx.y>>,
        ctl |-> IF cmd \in {"C", "c", "S", "s"} THEN sw.p2
                ELSE IF cmd \in {"Q", "q", "T", "t"} THEN sw.p
                ELSE Undef,
        c2 |-> IF cmd \in {"C", "c", "S", "s"} THEN sw.p3 ELSE Undef ]

MaxSegs == 3

PathSegKinds ==
  { PSeg("M", 0, 0, 0, 0, 3, 3), PSeg("m", 0, 0, 0, 0, 3, 0),
    PSeg("L", 0, 0, 0, 0, 6, 3), PSeg("l", 0, 0, 0, 0, 3, 0),
    PSeg("H", 0, 0, 0, 0, 6, 0), PSeg("v", 0, 0, 0, 0, 0, 3),
    PSeg("C", 0, 3, 3, 6, 6, 0), PSeg("c", 0, 3, 3, 3, 6, 0),
    PSeg("S", 0, 0, 3, 3, 6, 0), PSeg("s", 0, 0, 3, 3, 6, 0),
    PSeg("Q", 3, 3, 0, 0, 6, 0), PSeg("q", 3, 3, 0, 0, 6, 0),
    PSeg("T", 0, 0, 0, 0, 6, 0), PSeg("t", 0, 0, 0, 0, 3, 0),
    PSeg("A", 0, 0, 0, 0, 0, 0), PSeg("Z", 0, 0, 0, 0, 0, 0) }

PathLists == UNION { [1..n -> PathSegKinds] : n \in 0..MaxSegs }

PathMatrices == { unitMatrix, Matrix(1, 0, 0, 1, 3, 3) }

\* p before the call: never assigned, or the end point of an earlier path
StaleP == { Undef, <<6, 6>> }

PathInit ==
  /\ fnArg \in [list : PathLists, tf : PathMatrices, p0 : StaleP]
  /\ fnRes = [st |-> PathLocals(fnArg.p0), log |-> <<>>]
  /\ fnPc = "loop"
  /\ PtIdle
  /\ TrIdle

PathIn(cmds) ==
  /\ fnPc = "loop"
  /\ fnRes.st.i <= Len(fnArg.list)
  /\ fnArg.list[fnRes.st.i].cmd \in cmds
  /\ ~PathThrows(fnRes.st, fnArg.list)

PathDo ==
  [ st |-> PathStep(fnRes.st, fnArg.list, fnArg.tf),
    log |-> Append(fnRes.log, PathLog(fnRes.st, fnArg.list, fnArg.tf)) ]

PathMove ==
  /\ PathIn({"M", "m"})
  /\ fnRes' = PathDo
  /\ UNCHANGED <<fnArg, fnPc, ptVars, trVars>>

PathLine ==
  /\ PathIn({"L", "l", "H", "h", "V", "v"})
  /\ fnRes' = PathDo
  /\ UNCHANGED <<fnArg, fnPc, ptVars, trVars>>

PathCubic ==
  /\ PathIn({"C", "c", "S", "s"})
  /\ fnRes' = PathDo
  /\ UNCHANGED <<fnArg, fnPc, ptVars, trVars>>

PathQuadratic ==
  /\ PathIn({"Q", "q", "T", "t"})
  /\ fnRes' = PathDo
  /\ UNCHANGED <<fnArg, fnPc, ptVars, trVars>>

PathClose ==
  /\ PathIn(CloseCmds)
  /\ fnRes' = PathDo
  /\ UNCHANGED <<fnArg, fnPc, ptVars, trVars>>

\* a command the switch has no case for
PathNoCase ==
  /\ PathIn({"A", "a"})
  /\ fnRes' = PathDo
  /\ UNCHANGED <<fnArg, fnPc, ptVars, trVars>>

PathThrow ==
  /\ fnPc = "loop"
  /\ fnRes.st.i <= Len(fnArg.list)
  /\ PathThrows(fnRes.st, fnArg.list)
  /\ fnPc' = "threw"
  /\ UNCHANGED <<fnArg, fnRes, ptVars, trVars>>

PathReturn ==
  /\ fnPc = "loop"
  /\ fnRes.st.i > Len(fnArg.list)
  /\ fnPc' = "returned"
  /\ UNCHANGED <<fnArg, fnRes, ptVars, trVars>>

PathNext ==
  \/ PathMove
  \/ PathLine
  \/ PathCubic
  \/ PathQuadratic
  \/ PathClose
  \/ PathNoCase
  \/ PathThrow
  \/ PathReturn

SpecPath == PathInit /\ [][PathNext]_vars

(***************************************************************************)
(* Properties of getLinesFromPath, stated for SpecPath.                    *)
(***************************************************************************)
ArcCmds == {"A", "a"}

HasArc(list) == \E k \in 1..Len(list) : list[k].cmd \in ArcCmds

OpOf(cmd) ==
  IF cmd \in CurveCmds THEN "c"
  ELSE IF cmd \in {"m", "M"} THEN "m"
  ELSE IF cmd \in CloseCmds THEN "h"
  ELSE "l"

NotArc(seg) == seg.cmd \notin ArcCmds

ExpectedOps(list) ==
  LET kept == SelectSeq(list, NotArc)
  IN  [k \in 1..Len(kept) |-> OpOf(kept[k].cmd)]

\* C13: a path with an arc command (A or a) in any position never raises at
\* the arc: the arc segment is skipped, and once the loop has returned the
\* emitted lines are those of the other segments, in order.
C13_UnsupportedCommandTolerated ==
  HasArc(fnArg.list) =>
    /\ ~(fnPc = "threw" /\ fnArg.list[fnRes.st.i].cmd \in ArcCmds)
    /\ fnPc = "returned" =>
         [k \in 1..Len(fnRes.st.lines) |-> fnRes.st.lines[k].op] = ExpectedOps(fnArg.list)

MoveCmds == {"M", "m"}

\* the passes before pass k that were a MoveTo
MovesBefore(log, k) == {j \in 1..(k - 1) : log[j].cmd \in MoveCmds}

\* the target of the most recent MoveTo before pass k: the current point that
\* MoveTo left
LastMoveTarget(log, k) ==
  LET j == CHOOSE m \in MovesBefore(log, k) : \A o \in MovesBefore(log, k) : o <= m
  IN  log[j].after

\* C15: a close-path command (Z or z) resets the current point to the target
\* of the most recent MoveTo.
C15_ClosePathResetsToMoveTarget ==
  \A k \in 1..Len(fnRes.log) :
    (fnRes.log[k].cmd \in CloseCmds /\ MovesBefore(fnRes.log, k) # {}) =>
      fnRes.log[k].after = LastMoveTarget(fnRes.log, k)

\* the implicit first control point of a smooth segment: the reflection about
\* the current point of the control point `kind` names of the previous segment
\* when that segment is of the family, otherwise the current point
Reflected(log, k, family, kind) ==
  IF k > 1 /\ log[k - 1].cmd \in family
  THEN mirrorPoint(IF kind = "c2" THEN log[k - 1].c2 ELSE log[k - 1].ctl, log[k].before)
  ELSE log[k].before

\* C16: S and s take as first control point the reflection of the previous
\* segment's second control point exactly when the previous command is C, c, S
\* or s; T and t take the reflection of the previous quadratic control point
\* exactly when the previous command is Q, q, T or t; otherwise the implicit
\* control point is the current point.
C16_SmoothImplicitControlPoint ==
  \A k \in 1..Len(fnRes.log) :
    /\ fnRes.log[k].cmd \in {"S", "s"} =>
         fnRes.log[k].ctl = Reflected(fnRes.log, k, {"C", "c", "S", "s"}, "c2")
    /\ fnRes.log[k].cmd \in {"T", "t"} =>
         fnRes.log[k].ctl = Reflected(fnRes.log, k, {"Q", "q", "T", "t"}, "ctl")

(***************************************************************************)
(* parseFloats on strings, a string being a sequence of characters.  The   *)
(* characters are digits, the minus sign, the comma and the blank; numbers *)
(* are whole.                                                              *)
(***************************************************************************)
Digits == {"0", "1", "5"}

DigitValue(c) == IF c = "0" THEN 0 ELSE IF c = "1" THEN 1 ELSE 5

IsWs(c) == c = " "

\* str.replace(/[^eE]-/g, " -"): every match is two characters, the one before
\* the minus sign included, and matches do not overlap
RECURSIVE ReplaceMinus(_, _)
ReplaceMinus(str, i) ==
  IF i > Len(str) THEN <<>>
  ELSE IF i < Len(str) /\ str[i] \notin {"e", "E"} /\ str[i + 1] = "-"
  THEN <<" ", "-">> \o ReplaceMinus(str, i + 2)
  ELSE <<str[i]>> \o ReplaceMinus(str, i + 1)

\* String.prototype.trim
RECURSIVE Trim(_)
Trim(str) ==
  IF str = <<>> THEN str
  ELSE IF IsWs(str[1]) THEN Trim(Tail(str))
  ELSE IF IsWs(str[Len(str)]) THEN Trim(SubSeq(str, 1, Len(str) - 1))
  ELSE str

\* the last index of the run of blanks that starts at q (q - 1 if none does)
RECURSIVE WsRunEnd(_, _)
WsRunEnd(str, q) ==
  IF q <= Len(str) /\ IsWs(str[q]) THEN WsRunEnd(str, q + 1) ELSE q - 1

\* str.split(/\s*\s|,\s*/): p is where the piece being read starts, q where a
\* separator is looked for; a separator is a run of blanks, or a comma and the
\* blanks after it
RECURSIVE Split(_, _, _)
Split(str, p, q) ==
  IF q > Len(str) THEN <<SubSeq(str, p, Len(str))>>
  ELSE IF IsWs(str[q])
  THEN <<SubSeq(str, p, q - 1)>> \o Split(str, WsRunEnd(str, q) + 1, WsRunEnd(str, q) + 1)
  ELSE IF str[q] = ","
  THEN <<SubSeq(str, p, q - 1)>> \o Split(str, WsRunEnd(str, q + 1) + 1, WsRunEnd(str, q + 1) + 1)
  ELSE Split(str, p, q + 1)

\* the value of the digits of str from index i on, up to the first character
\* that is not a digit, continuing the value acc
RECURSIVE DigitsValue(_, _, _)
DigitsValue(str, i, acc) ==
  IF i <= Len(str) /\ str[i] \in Digits
  THEN DigitsValue(str, i + 1, 10 * acc + DigitValue(str[i]))
  ELSE acc

\* parseFloat of a string: the longest prefix that is a number, NaN if none
parseFloat(str) ==
  LET t == Trim(str)
      neg == t # <<>> /\ t[1] = "-"
      d == IF neg THEN 2 ELSE 1
  IN  IF d <= Len(t) /\ t[d] \in Digits
      THEN Num((IF neg THEN -1 ELSE 1) * DigitsValue(t, d, 0))
      ELSE NaN

parseFloats(str) ==
  LET pieces == Split(Trim(ReplaceMinus(str, 1)), 1, 1)
  IN  [k \in 1..Len(pieces) |-> parseFloat(pieces[k])]

MaxChars == 4

PFChars == Digits \cup {"-", ",", " "}

PFStrings == UNION { [1..n -> PFChars] : n \in 0..MaxChars }

PFInit ==
  /\ fnArg \in PFStrings
  /\ fnRes = <<>>
  /\ fnPc = "parseFloats"
  /\ PtIdle
  /\ TrIdle

PFCall ==
  /\ fnPc = "parseFloats"
  /\ fnRes' = parseFloats(fnArg)
  /\ fnPc' = "done"
  /\ UNCHANGED <<fnArg, ptVars, trVars>>

SpecParseFloats == PFInit /\ [][PFCall]_vars

(***************************************************************************)
(* Properties of parseFloats, stated for SpecParseFloats.                  *)
(***************************************************************************)
\* the tokens of a string: maximal runs of digits, each with the minus sign
\* directly before it if there is one; a minus sign always starts a token
RECURSIVE Tokens(_, _, _)
Tokens(str, i, cur) ==
  LET flush == IF cur = <<>> THEN <<>> ELSE <<cur>>
  IN  IF i > Len(str) THEN flush
      ELSE IF str[i] \in Digits THEN Tokens(str, i + 1, Append(cur, str[i]))
      ELSE IF str[i] = "-" THEN flush \o Tokens(str, i + 1, <<"-">>)
      ELSE flush \o Tokens(str, i + 1, <<>>)

\* the fields of a string: what lies between its commas
RECURSIVE Fields(_, _)
Fields(str, cur) ==
  IF str = <<>> THEN <<cur>>
  ELSE IF str[1] = "," THEN <<cur>> \o Fields(Tail(str), <<>>)
  ELSE Fields(Tail(str), Append(cur, str[1]))

\* a list of numbers: every token has a digit, and there is a number on each
\* side of a comma
WellFormed(str) ==
  /\ \A k \in 1..Len(Tokens(str, 1, <<>>)) : Tokens(str, 1, <<>>)[k] # <<"-">>
  /\ \A k \in 1..Len(Fields(str, <<>>)) : Tokens(Fields(str, <<>>)[k], 1, <<>>) # <<>>

TokenValue(tok) ==
  IF tok[1] = "-" THEN Num(-DigitsValue(tok, 2, 0)) ELSE Num(DigitsValue(tok, 1, 0))

NumbersWritten(str) ==
  [k \in 1..Len(Tokens(str, 1, <<>>)) |-> TokenValue(Tokens(str, 1, <<>>)[k])]

\* C14: parseFloats returns exactly the numbers written in a list of numbers;
\* "10-5" yields 10 and -5.
C14_ParseFloatsReturnsNumbersWritten ==
  (fnPc = "done" /\ WellFormed(fnArg)) => fnRes = NumbersWritten(fnArg)

(***************************************************************************)
(* The rotate branch of parseTransform on its own: m is what parseFloats   *)
(* returned for rotate(deg, cx, cy) and acc is resultMatrix.               *)
(***************************************************************************)
RotAngles == {0, 90, 180, 270}

RotPivots == {-1, 0, 1, 2}

RotAccs == {unitMatrix, Matrix(1, 0, 0, 1, 3, 0)}

RotInit ==
  /\ fnArg \in [deg : RotAngles, cx : RotPivots, cy : RotPivots, acc : RotAccs]
  /\ fnRes = <<>>
  /\ fnPc = "rotate"
  /\ PtIdle
  /\ TrIdle

RotCall ==
  /\ fnPc = "rotate"
  /\ fnRes' = RotateOnto(<<Num(fnArg.deg), Num(fnArg.cx), Num(fnArg.cy)>>, fnArg.acc)
  /\ fnPc' = "done"
  /\ UNCHANGED <<fnArg, ptVars, trVars>>

SpecRotate == RotInit /\ [][RotCall]_vars

(***************************************************************************)
(* Properties of the rotate branch, stated for SpecRotate.                 *)
(***************************************************************************)
\* translate(cx, cy) . rotate(deg) . translate(-cx, -cy): a point is moved by
\* (-cx, -cy), rotated about the origin, and moved back
RotationAbout(deg, cx, cy) ==
  matrixMult(Matrix(1, 0, 0, 1, -cx, -cy),
             matrixMult(Matrix(Cos(deg), Sin(deg), -Sin(deg), Cos(deg), 0, 0),
                        Matrix(1, 0, 0, 1, cx, cy)))

\* C17: rotate(deg, cx, cy) with both pivot coordinates given is
\* translate(cx, cy) . rotate(deg) . translate(-cx, -cy), for all deg, cx, cy
\* (rotate(90, 1, 1) maps (1, 0) to (2, 1)); here for a rotate written alone.
C17_RotateAboutPivot ==
  (fnPc = "done" /\ fnArg.acc = unitMatrix) =>
    fnRes = RotationAbout(fnArg.deg, fnArg.cx, fnArg.cy)

(***************************************************************************)
(* getUntransformedBBox on an element with all its attributes.  Its result *)
(* is an array of four JavaScript numbers, or <<>> when the call throws.   *)
(***************************************************************************)
\* a + b
JsAdd(a, b) ==
  IF a.nan \/ b.nan \/ (a.inf # 0 /\ b.inf # 0 /\ a.inf # b.inf) THEN NaN
  ELSE IF a.inf # 0 THEN a
  ELSE IF b.inf # 0 THEN b
  ELSE Num(a.v + b.v)

\* a - b
JsSub(a, b) == JsAdd(a, [b EXCEPT !.inf = -b.inf, !.v = -b.v])

\* a < b, for numbers that are not NaN
JsLess(a, b) == a.inf < b.inf \/ (a.inf = 0 /\ b.inf = 0 /\ a.v < b.v)

\* Math.min(a, b) and Math.max(a, b)
JsMin(a, b) == IF a.nan \/ b.nan THEN NaN ELSE IF JsLess(b, a) THEN b ELSE a

JsMax(a, b) == IF a.nan \/ b.nan THEN NaN ELSE IF JsLess(a, b) THEN b ELSE a

\* parsePointsString, on the numbers parseFloats returned: pairs, a number
\* left over at the end being dropped
parsePointsString(floats) ==
  [k \in 1..(Len(floats) \div 2) |-> <<floats[2 * k - 1], floats[2 * k]>>]

\* the bounds after the points of pts have been added to them
RECURSIVE GrowBounds(_, _)
GrowBounds(b, pts) ==
  IF pts = <<>> THEN b
  ELSE GrowBounds([minX |-> JsMin(b.minX, Head(pts)[1]), maxX |-> JsMax(b.maxX, Head(pts)[1]),
                   minY |-> JsMin(b.minY, Head(pts)[2]), maxY |-> JsMax(b.maxY, Head(pts)[2])],
                  Tail(pts))

NoBounds == [minX |-> Infinity, minY |-> Infinity, maxX |-> NegInfinity, maxY |-> NegInfinity]

BoundsBox(b) == <<b.minX, b.minY, JsSub(b.maxX, b.minX), JsSub(b.maxY, b.minY)>>

JsPoint(p) == <<Num(p[1]), Num(p[2])>>

\* the switch (cmd) of the path branch; pf is the function's variable pf, which
\* is undefined until a Q, q or t segment assigns it
BBoxSwitch(st, list, i) ==
  LET seg == list[i]
      cur == <<st.x, st.y>>
      cp == getControlPointFromPrevious(i, cur, list, st.prevX, st.prevY)
  IN  CASE seg.cmd = "H" -> [st EXCEPT !.x = seg.x]
        [] seg.cmd = "h" -> [st EXCEPT !.x = seg.x + st.x]
        [] seg.cmd = "V" -> [st EXCEPT !.y = seg.y]
        [] seg.cmd = "v" -> [st EXCEPT !.y = seg.y + st.y]
        [] seg.cmd = "C" ->
             [st EXCEPT !.p2 = <<seg.x1, seg.y1>>, !.p3 = <<seg.x2, seg.y2>>, !.to = <<seg.x, seg.y>>]
        [] seg.cmd = "c" ->
             [st EXCEPT !.p2 = <<seg.x1 + st.x, seg.y1 + st.y>>,
                        !.p3 = <<seg.x2 + st.x, seg.y2 + st.y>>,
                        !.to = <<seg.x + st.x, seg.y + st.y>>]
        [] seg.cmd = "S" ->
             [st EXCEPT !.p2 = cp, !.p3 = <<seg.x2, seg.y2>>, !.to = <<seg.x, seg.y>>]
        [] seg.cmd = "s" ->
             [st EXCEPT !.p2 = cp, !.p3 = <<seg.x2 + st.x, seg.y2 + st.y>>,
                        !.to = <<seg.x + st.x, seg.y + st.y>>]
        [] seg.cmd = "Q" ->
             [st EXCEPT !.pf = <<seg.x1, seg.y1>>,
                        !.p2 = toCubic(cur, <<seg.x1, seg.y1>>),
                        !.p3 = toCubic(<<seg.x, seg.y>>, <<seg.x1, seg.y1>>),
                        !.to = <<seg.x, seg.y>>]
        [] seg.cmd = "q" ->
             [st EXCEPT !.pf = <<seg.x1 + st.x, seg.y1 + st.y>>,
                        !.p2 = toCubic(cur, <<seg.x1 + st.x, seg.y1 + st.y>>),
                        !.p3 = toCubic(<<st.x + seg.x, st.y + seg.y>>, <<seg.x1 + st.x, seg.y1 + st.y>>),
                        !.to = <<seg.x + st.x, seg.y + st.y>>]
        [] seg.cmd = "T" ->
             [st EXCEPT !.p2 = toCubic(cur, st.pf),
                        !.p3 = toCubic(<<seg.x, seg.y>>, st.pf),
                        !.to = <<seg.x, seg.y>>]
        [] seg.cmd = "t" ->
             [st EXCEPT !.pf = cp,
                        !.p2 = toCubic(cur, cp),
                        !.p3 = toCubic(<<st.x + seg.x, st.y + seg.y>>, cp),
                        !.to = <<seg.x + st.x, seg.y + st.y>>]
        [] OTHER -> st

\* the loop of the path branch from segment i on
RECURSIVE BBoxLoop(_, _, _)
BBoxLoop(st, list, i) ==
  IF i > Len(list) THEN st
  ELSE IF list[i].cmd = "T" /\ st.pf = Undef THEN [st EXCEPT !.threw = TRUE]
  ELSE LET sw == BBoxSwitch(st, list, i)
           pv == IF list[i].cmd \in CurveCmds THEN [sw EXCEPT !.prevX = sw.x, !.prevY = sw.y] ELSE sw
           mv == PathAdvance([i |-> i, x |-> pv.x, y |-> pv.y], list[i])
           at == [pv EXCEPT !.x = mv.x, !.y = mv.y]
           pts == IF list[i].cmd \in CurveCmds
                  THEN <<JsPoint(<<at.x, at.y>>), JsPoint(at.p2), JsPoint(at.p3), JsPoint(at.to)>>
                  ELSE <<JsPoint(<<at.x, at.y>>)>>
       IN  BBoxLoop([at EXCEPT !.b = GrowBounds(at.b, pts)], list, i + 1)

BBoxLocals ==
  [ x |-> 0, y |-> 0, prevX |-> 0, prevY |-> 0, p2 |-> Undef, p3 |-> Undef, to |-> Undef,
    pf |-> Undef, b |-> NoBounds, threw |-> FALSE ]

\* vb && vb[i]
VbAt(el, i) == IF el.viewBox = <<>> THEN NaN ELSE At(el.viewBox, i)

UntransformedBBox(el) ==
  IF el.tag = "polygon"
  THEN BoundsBox(GrowBounds(NoBounds, parsePointsString(el.points)))
  ELSE IF el.tag = "path"
  THEN LET st == BBoxLoop(BBoxLocals, el.segs, 1)
       IN  IF st.threw THEN <<>> ELSE BoundsBox(st.b)
  ELSE IF el.tag = "svg"
  THEN << Or(Or(el.attr["x"], VbAt(el, 1)), Num(0)),
          Or(Or(el.attr["y"], VbAt(el, 2)), Num(0)),
          Or(Or(el.attr["width"], VbAt(el, 3)), Num(0)),
          Or(Or(el.attr["height"], VbAt(el, 4)), Num(0)) >>
  ELSE IF el.tag = "marker"
  THEN << Or(VbAt(el, 1), Num(0)),
          Or(VbAt(el, 2), Num(0)),
          Or(Or(VbAt(el, 3), el.attr["marker-width"]), Num(0)),
          Or(Or(VbAt(el, 4), el.attr["marker-height"]), Num(0)) >>
  ELSE LET a == el.attr
           x1 == Or(Or(Or(a["x1"], a["x"]), JsSub(a["cx"], a["r"])), Num(0))
           x2 == Or(Or(Or(a["x2"], JsAdd(x1, a["width"])), JsAdd(a["cx"], a["r"])), Num(0))
           y1 == Or(Or(Or(a["y1"], a["y"]), JsSub(a["cy"], a["r"])), Num(0))
           y2 == Or(Or(Or(a["y2"], JsAdd(y1, a["height"])), JsAdd(a["cy"], a["r"])), Num(0))
       IN  << JsMin(x1, x2), JsMin(y1, y2),
              JsSub(JsMax(x1, x2), JsMin(x1, x2)), JsSub(JsMax(y1, y2), JsMin(y1, y2)) >>

BBPos == {NaN, Num(3)}

BBFloats ==
  { <<>>, <<Num(1), Num(2)>>, <<Num(1), Num(2), Num(5)>>, <<Num(1), Num(2), Num(5), Num(-3)>>,
    <<Num(1), Num(2), Num(5), Num(-3), Num(0), Num(7)>> }

BBViewBoxes == { <<>>, <<Num(0), Num(0), Num(-4), Num(8)>>, <<Num(1), Num(1), Num(4), Num(8)>> }

BBElems ==
  {Elem("rect", ("x" :> x) @@ ("y" :> y) @@ ("width" :> Num(10)) @@ ("height" :> h)) :
     x \in BBPos \cup {Num(-10)}, y \in BBPos, h \in {Num(20), Num(0)}}
  \cup {Elem("circle", ("cx" :> x) @@ ("cy" :> y) @@ ("r" :> Num(5))) :
     x \in BBPos \cup {Num(0)}, y \in BBPos}
  \cup {Elem("ellipse", ("cx" :> x) @@ ("cy" :> y) @@ ("rx" :> Num(2)) @@ ("ry" :> Num(4))) :
     x \in BBPos, y \in BBPos}
  \cup {Elem("line", ("x1" :> p[1]) @@ ("y1" :> p[2]) @@ ("x2" :> p[3]) @@ ("y2" :> p[4])) :
     p \in [1..4 -> BBPos \cup {Num(-3)}]}
  \cup {[Elem(tag, <<>>) EXCEPT !.points = f] : tag \in {"polygon", "polyline"}, f \in BBFloats}
  \cup {[Elem("path", <<>>) EXCEPT !.segs = l] : l \in PathLists}
  \cup {[Elem("svg", ("x" :> x) @@ ("width" :> w) @@ ("height" :> h)) EXCEPT !.viewBox = vb] :
     x \in BBPos, w \in {NaN, Num(-5), Num(10)}, h \in {NaN, Num(-5), Num(10)}, vb \in BBViewBoxes}
  \cup {[Elem("marker", ("marker-width" :> w) @@ ("marker-height" :> w)) EXCEPT !.viewBox = vb] :
     w \in {NaN, Num(4)}, vb \in BBViewBoxes}

BBInit ==
  /\ fnArg \in BBElems
  /\ fnRes = <<>>
  /\ fnPc = "getUntransformedBBox"
  /\ PtIdle
  /\ TrIdle

BBCall ==
  /\ fnPc = "getUntransformedBBox"
  /\ fnRes' = UntransformedBBox(fnArg)
  /\ fnPc' = IF UntransformedBBox(fnArg) = <<>> THEN "threw" ELSE "done"
  /\ UNCHANGED <<fnArg, ptVars, trVars>>

SpecBBox == BBInit /\ [][BBCall]_vars

(***************************************************************************)
(* Properties of getUntransformedBBox, stated for SpecBBox.                *)
(***************************************************************************)
\* an attribute, 0 when it is absent
AttrOr0(el, a) == IF el.attr[a].nan THEN Num(0) ELSE el.attr[a]

Twice(a) == JsAdd(a, a)

\* the box (x, y, width, height) of each kind of shape
KindBBox(el) ==
  CASE el.tag = "rect" ->
         <<AttrOr0(el, "x"), AttrOr0(el, "y"), AttrOr0(el, "width"), AttrOr0(el, "height")>>
    [] el.tag = "circle" ->
         << JsSub(AttrOr0(el, "cx"), AttrOr0(el, "r")), JsSub(AttrOr0(el, "cy"), AttrOr0(el, "r")),
            Twice(AttrOr0(el, "r")), Twice(AttrOr0(el, "r")) >>
    [] el.tag = "ellipse" ->
         << JsSub(AttrOr0(el, "cx"), AttrOr0(el, "rx")), JsSub(AttrOr0(el, "cy"), AttrOr0(el, "ry")),
            Twice(AttrOr0(el, "rx")), Twice(AttrOr0(el, "ry")) >>
    [] el.tag = "line" ->
         << JsMin(AttrOr0(el, "x1"), AttrOr0(el, "x2")), JsMin(AttrOr0(el, "y1"), AttrOr0(el, "y2")),
            JsSub(JsMax(AttrOr0(el, "x1"), AttrOr0(el, "x2")), JsMin(AttrOr0(el, "x1"), AttrOr0(el, "x2"))),
            JsSub(JsMax(AttrOr0(el, "y1"), AttrOr0(el, "y2")), JsMin(AttrOr0(el, "y1"), AttrOr0(el, "y2"))) >>
    [] el.tag \in {"polygon", "polyline"} ->
         BoundsBox(GrowBounds(NoBounds, [k \in 1..(Len(el.points) \div 2) |->
                                           <<el.points[2 * k - 1], el.points[2 * k]>>]))

\* C18: the bounding box of a rect is (x, y, width, height), of a circle
\* (cx - r, cy - r, 2r, 2r), of an ellipse (cx - rx, cy - ry, 2rx, 2ry), of a
\* line the min/max of its endpoints, of a polygon and of a polyline the
\* min/max over its vertices.
C18_BBoxPerKind ==
  ( /\ fnPc = "done"
    /\ fnArg.tag \in {"rect", "circle", "ellipse", "line", "polygon", "polyline"}
    /\ fnArg.tag \in {"polygon", "polyline"} => Len(fnArg.points) >= 2 )
  => fnRes = KindBBox(fnArg)

FiniteNonNegative(a) == ~a.nan /\ a.inf = 0 /\ a.v >= 0

\* C19: every box getUntransformedBBox returns has a finite width >= 0 and a
\* finite height >= 0, also for a polygon without points, a path without
\* segments and an svg element with a negative width, height or viewBox.
C19_BBoxNonNegative ==
  fnPc = "done" => (FiniteNonNegative(fnRes[3]) /\ FiniteNonNegative(fnRes[4]))

(***************************************************************************)
(* A further property of the traversal, stated for Spec.                   *)
(***************************************************************************)
\* the use element names the id of a rect or a group declared in its own scope
\* or an enclosing one
ValidUse(u) ==
  \E d \in decls : d.node.id = u.href /\ d.node.tag \in {"rect", "g"} /\ IsPrefix(d.scope, u.scope)

\* the last url(#id) fill named a gradient declared in the scope of the
\* filled element or an enclosing one
ValidFill ==
  /\ lastLookup.found
  /\ lastLookup.result.tag = "lineargradient"
  /\ \E d \in decls : d.node.id = lastLookup.id /\ IsPrefix(d.scope, lastLookup.scope)

\* C20: when every reference names an id declared in the referencing scope or
\* an enclosing one, every key handed to doFormObject was registered earlier
\* by endFormObject under exactly that key, and every gradient key handed to a
\* draw call was registered earlier by addPattern under exactly that key.
C20_NoUseBeforeRegister ==
  (\A u \in uses : ValidUse(u)) =>
    /\ status = "done" =>
         \A k \in OpIdx(ops, "doFormObject") : Registered(SubSeq(ops, 1, k - 1), ops[k].key)
    /\ ValidFill =>
         \A k \in OpIdx(ops, "roundedRect") :
           (ops[k].node = lastLookup.node /\ ops[k].key # NoAttr) =>
             \E j \in 1..(k - 1) : ops[j].op = "addPattern" /\ ops[j].key = ops[k].key

====
